---- MODULE Spec2Model ----
(***************************************************************************)
(* Model of the sampling engine of sdv.tabular.base.BaseTabularModel:      *)
(* the reject-sampling loop (_sample_batch), batching                      *)
(* (_sample_in_batches), the output file handling (_validate_file_path,    *)
(* the to_csv appends, the clean-up), the condition partitioning           *)
(* (_make_condition_dfs, _sample_with_conditions) and the three entry      *)
(* points sample, sample_conditions and sample_remaining_columns.          *)
(*                                                                         *)
(* The row generator (_sample), reverse_transform, filter_valid and the    *)
(* condition transform are external: a round's outcome is the number of    *)
(* candidates that survive the filters, chosen nondeterministically.       *)
(* Conditions are on data columns of a table that has data columns.        *)
(***************************************************************************)
EXTENDS Integers, Sequences, FiniteSets, TLC

\* ---------------------------------------------------------------- bounds
MaxRows == 3
MaxTries == 2
MaxYield == 4
MaxSampled == 2
MaxRuns == 2
MaxTarget == 100
MaxStray == 1
MaxRounds == 4

\* ------------------------------------------------------ program constants
BatchCapFactor == 10

\* The bits of the significand of a Python float (an IEEE 754 double).
MantissaBits == 53

\* Python's None for an integer argument, pandas' NaN for an index value,
\* and the header line of the csv file, as numbers outside the data range.
None == -1
NaN == -1
Header == 0

Min(a, b) == IF a <= b THEN a ELSE b
Max(a, b) == IF a >= b THEN a ELSE b

Abs(x) == IF x >= 0 THEN x ELSE -x

\* math.ceil(x / y) for x >= 0, y > 0.
CeilDiv(x, y) == (x + y - 1) \div y

\* DataFrame.head(n) and DataFrame.tail(n) for n >= 0.
Head_(s, n) == SubSeq(s, 1, Min(n, Len(s)))
Tail_(s, n) == SubSeq(s, Len(s) - Min(n, Len(s)) + 1, Len(s))

\* k fresh row identities following the identity `last`.
FreshRows(last, k) == [i \in 1..k |-> last + i]

\* Table._make_ids for an integer id field: np.arange(length).
MakeIds(length) == [i \in 1..length |-> i - 1]

\* ------------------------------------------------------------ the files
\* A file is absent or holds a sequence of lines: Header or a row identity.
NoFile == [exists |-> FALSE, lines |-> <<>>]
EmptyFile == [exists |-> TRUE, lines |-> <<>>]
StaleFile == [exists |-> TRUE, lines |-> <<Header, 99>>]

\* The data rows of a file: its lines but the header lines.
DataRows(f) == SelectSeq(f.lines, LAMBDA l : l # Header)

VARIABLES
    entry,          \* the entry point called
    pc,             \* "call", "loop", "returned", "raised"
    err,            \* the exception that ended the call, "" if none
    args,           \* the arguments of the call
    has_dtypes,     \* whether the table has data (non-id) columns
    n_transformed_columns, \* the number of columns a condition transforms to
    files,          \* the file system: [tmp, user]
    output_file_path, \* "", "tmp" or "user" after _validate_file_path
    handled,        \* the arguments handle_sampling_error was called with
    batch,          \* the locals of _sample_batch
    inb,            \* the locals of _sample_in_batches
    cond,           \* the locals of the conditioned calls
    result,         \* the rows returned to the caller
    last_id,        \* the identity of the last row accepted so far
    accepted_log,   \* history: the rows accepted, after trimming, per round
    unmet,          \* the condition values the fitted constraints reject
    id_field,       \* the value of the id field of each row, by identity
    generator_calls, \* history: the number of calls of _sample_rows
    supports_conditions, \* whether _sample accepts conditions
    sample_args,    \* history: the arguments of the calls of _sample of the
                    \* last round
    stray,          \* history: the rows held that do not match their condition
    files_at_call,  \* history: the file system when the call was made
    model,          \* the class of self._model, "None" if it is None
    set_random_state_calls, \* history: the calls of _set_random_state
    check_num_rows_args, \* history: the arguments of check_num_rows
    matcher         \* the frame, the condition and the runs of the matcher

vars == <<entry, pc, err, args, has_dtypes, n_transformed_columns, files,
          output_file_path, handled, batch, inb, cond, result, last_id,
          accepted_log, unmet, id_field, generator_calls, matcher,
          supports_conditions, sample_args, stray, files_at_call, model,
          check_num_rows_args, set_random_state_calls>>

\* The columns of the table and the values of a column.
Fields == {"a", "b"}
Vals == {1, 2}

\* ------------------------------------------------- _validate_file_path
\* A validation that takes over a file that exists at the caller's path.
ValidateFilePathOverwrite(arg, fs) ==
    IF arg = "disable"
    THEN [ok |-> TRUE, path |-> "", fs |-> fs]
    ELSE IF arg = "user"
    THEN [ok |-> TRUE, path |-> "user", fs |-> [fs EXCEPT !.user = EmptyFile]]
    ELSE [ok |-> TRUE, path |-> "tmp", fs |-> [fs EXCEPT !.tmp = EmptyFile]]

\* A validation that opens the temporary file it finds for appending.
ValidateFilePathKeepStale(arg, fs) ==
    IF arg = "disable"
    THEN [ok |-> TRUE, path |-> "", fs |-> fs]
    ELSE IF arg = "user"
    THEN IF fs.user.exists
         THEN [ok |-> FALSE, path |-> "", fs |-> fs]
         ELSE [ok |-> TRUE, path |-> "user",
               fs |-> [fs EXCEPT !.user = EmptyFile]]
    ELSE [ok |-> TRUE, path |-> "tmp",
          fs |-> IF fs.tmp.exists THEN fs
                 ELSE [fs EXCEPT !.tmp = EmptyFile]]

\* The outcome of _validate_file_path(arg) on the file system fs:
\* arg is "disable", "user" (a caller path) or "" (no path).
ValidateFilePath(arg, fs) ==
    IF arg = "disable"
    THEN [ok |-> TRUE, path |-> "", fs |-> fs]
    ELSE IF arg = "user"
    THEN IF fs.user.exists
         THEN [ok |-> FALSE, path |-> "", fs |-> fs]
         ELSE [ok |-> TRUE, path |-> "user",
               fs |-> [fs EXCEPT !.user = EmptyFile]]
    ELSE [ok |-> TRUE, path |-> "tmp",
          fs |-> [fs EXCEPT !.tmp = EmptyFile]]

\* A clean-up that leaves the temporary file.
KeepTmp(path, fs) == fs

\* The clean-up after a successful run: remove the temporary file.
RemoveTmp(path, fs) ==
    IF path = "tmp" /\ fs.tmp.exists THEN [fs EXCEPT !.tmp = NoFile] ELSE fs

\* A to_csv that always writes from the start.
ToCsvOverwrite(f, rows) == [exists |-> TRUE, lines |-> <<Header>> \o rows]

\* A to_csv that appends and writes the header every time.
ToCsvWithHeader(f, rows) ==
    [exists |-> TRUE, lines |-> f.lines \o <<Header>> \o rows]

\* DataFrame.to_csv on the path: append without a header when the file is
\* not empty, else write the header and the rows from the start.
ToCsv(f, rows) ==
    IF Len(f.lines) > 0
    THEN [f EXCEPT !.lines = f.lines \o rows]
    ELSE [exists |-> TRUE, lines |-> <<Header>> \o rows]

\* ----------------------------------------------------- _sample_batch
BatchInit(batch_size) ==
    [batch_size |-> batch_size,
     num_rows_to_sample |-> batch_size,
     counter |-> 0,
     num_valid |-> 0,
     prev_num_valid |-> None,
     remaining |-> batch_size,
     sampled |-> <<>>]

\* The calls of _sample of a round of _sample_rows, each with its
\* arguments; conditions and transformed_conditions are "None" or not. A
\* generator that does not accept conditions raises NotImplementedError
\* when it is given some, and is then called without.
SampleCalls(num_rows, conditions, transformed_conditions) ==
    IF conditions = "None"
    THEN <<[num_rows |-> num_rows, conditions |-> "None"]>>
    ELSE IF transformed_conditions = "None" \/ supports_conditions
    THEN <<[num_rows |-> num_rows, conditions |-> transformed_conditions]>>
    ELSE <<[num_rows |-> num_rows, conditions |-> transformed_conditions],
           [num_rows |-> num_rows, conditions |-> "None"]>>

\* A _sample_rows that returns the rows of the round without the
\* previous ones.
SampleRowsWithoutPrevious(num_rows, conditions, transformed_conditions, previous_rows, outcome, dtypes) ==
    LET kept == IF conditions # "None" THEN outcome.passing
                ELSE outcome.passing + outcome.failing
        rows == FreshRows(last_id, IF dtypes THEN kept ELSE num_rows)
    IN  [sampled |-> rows, num_valid |-> Len(rows),
         calls |-> IF dtypes
                   THEN SampleCalls(num_rows, conditions,
                                    transformed_conditions)
                   ELSE <<>>,
         stray |-> {}]

\* A _sample_rows that does not filter the rows of the call it makes
\* without conditions after NotImplementedError.
SampleRowsFallbackUnfiltered(num_rows, conditions, transformed, previous_rows, outcome, dtypes) ==
    LET calls == SampleCalls(num_rows, conditions, transformed)
        kept == IF conditions # "None" /\ Len(calls) = 1
                THEN outcome.passing
                ELSE outcome.passing + outcome.failing
        rows == FreshRows(last_id, kept)
        sampled == previous_rows \o rows
    IN  [sampled |-> sampled, num_valid |-> Len(sampled), calls |-> calls,
         stray |-> {rows[i] : i \in (outcome.passing + 1)..kept}]

\* _sample_rows: the rows that are valid after the round and their number,
\* when, of the num_rows candidates, outcome.passing pass filter_valid and
\* match the conditions and outcome.failing pass filter_valid and do not
\* match them; the calls of _sample; the rows kept that do not match.
SampleRows(num_rows, conditions, transformed_conditions, previous_rows, outcome, dtypes) ==
    IF dtypes
    THEN LET kept == IF conditions # "None" THEN outcome.passing
                     ELSE outcome.passing + outcome.failing
             rows == FreshRows(last_id, kept)
             sampled == previous_rows \o rows
         IN  [sampled |-> sampled, num_valid |-> Len(sampled),
              calls |-> SampleCalls(num_rows, conditions,
                                    transformed_conditions),
              stray |-> {rows[i] : i \in (outcome.passing + 1)..kept}]
    ELSE [sampled |-> FreshRows(last_id, num_rows), num_valid |-> num_rows,
          calls |-> <<>>, stray |-> {}]

\* The number of rows of the round that are written to the file.
NumIncrease(num_new_valid_rows, remaining) == Min(num_new_valid_rows, remaining)

\* The rows of the round that are written to the file.
RowsToWrite(sampled, batch_size, num_increase) ==
    Tail_(Head_(sampled, Min(Len(sampled), batch_size)), num_increase)

\* A resize that asks for the rows that remain, whatever the valid rate.
NextRequestRemaining(batch_size, remaining, new_valid, requested) == remaining

\* 2^s modulo m.
RECURSIVE Pow2Mod(_, _)
Pow2Mod(s, m) ==
    IF s = 0 THEN 1 % m
    ELSE IF s % 2 = 0
    THEN LET h == Pow2Mod(s \div 2, m) IN (h * h) % m
    ELSE (2 * Pow2Mod(s - 1, m)) % m

\* The least c >= 0 with a * 2^c >= b, and the greatest p with 2^p <= n.
RECURSIVE Scale(_, _)
Scale(a, b) == IF a >= b THEN 0 ELSE 1 + Scale(2 * a, b)

RECURSIVE Log2(_)
Log2(n) == IF n <= 1 THEN 0 ELSE 1 + Log2(n \div 2)

\* valid_rate = max(num_new_valid_rows, 1) / max(num_rows_to_sample, 1):
\* the quotient a / b of two ints, 1 <= a <= b, is the double nearest to it
\* (ties to even). With s = MantissaBits - 1 + c the significand is
\* M = (a * 2^s) div b, in 2^52 .. 2^53 - 1, and the double is M / 2^s or
\* (M + 1) / 2^s; the remainder rho = (a * 2^s) mod b decides, and the
\* parity of M in a tie. The double is kept as a / b + above / (b * 2^s),
\* with above = 0 when it is not above a / b: the quotient of line 339
\* needs no more of it.
ValidRate(num_new_valid_rows, num_rows_to_sample) ==
    LET a == Max(num_new_valid_rows, 1)
        b == Max(num_rows_to_sample, 1)
        c == Scale(a, b)
        r == (a * Pow2Mod(MantissaBits - 1 + c, 2 * b)) % (2 * b)
        rho == r % b
        up == 2 * rho > b \/ (2 * rho = b /\ r >= b)
    IN  [a |-> a, b |-> b, c |-> c, above |-> IF up THEN b - rho ELSE 0]

\* int(remaining / valid_rate) for remaining >= 0: the double nearest to
\* the quotient, truncated. The quotient is below n = remaining * b / a
\* only when the rate is above a / b, and the truncation then differs from
\* that of the exact quotient only when n is a whole number and the double
\* nearest to the quotient is not n: when n - quotient, which is
\* n * above / (a * 2^s + above), is more than half of the distance from n
\* to the double before it, 2^(p - 52) with 2^p <= n < 2^(p + 1), or
\* 2^(p - 53) when n = 2^p; in whole numbers, when
\* 2 * n * above > a * 2^(c + p), or 4 * n * above when n = 2^p.
IntQuotient(remaining, rate) ==
    LET n == (remaining * rate.b) \div rate.a
        p == Log2(n)
        f == IF n = 2^p THEN 4 ELSE 2
    IN  IF (remaining * rate.b) % rate.a # 0 \/ rate.above = 0 \/ n = 0
        THEN n
        ELSE IF f * n * rate.above > rate.a * 2^(rate.c + p)
        THEN n - 1
        ELSE n

\* int(remaining / valid_rate): Python's int() truncates towards zero, and
\* the quotient of -x is the negative of the quotient of x.
IntOfQuotient(remaining, rate) ==
    IF remaining >= 0 THEN IntQuotient(remaining, rate)
    ELSE -IntQuotient(-remaining, rate)

\* A resize without the cap of BatchCapFactor times the batch size.
NextRequestUncapped(batch_size, remaining, new_valid, requested) ==
    IntOfQuotient(remaining, ValidRate(new_valid, requested))

\* The size of the next request.
NextRequest(batch_size, remaining, num_new_valid_rows, num_rows_to_sample) ==
    Min(BatchCapFactor * batch_size,
        IntOfQuotient(remaining,
                      ValidRate(num_new_valid_rows, num_rows_to_sample)))

\* A loop condition that lets a full batch take one more round.
LoopContinuesWhenFull(b, max_tries) ==
    b.num_valid <= b.batch_size /\ b.counter < max_tries

\* A loop condition without the retry budget.
LoopContinuesWithoutBudget(b, max_tries) == b.num_valid < b.batch_size

\* A loop condition that allows one round more than the retry budget.
LoopContinuesOneMore(b, max_tries) ==
    b.num_valid < b.batch_size /\ b.counter <= max_tries

\* The loop condition of _sample_batch.
LoopContinues(b, max_tries) ==
    b.num_valid < b.batch_size /\ b.counter < max_tries

\* A return value that is not trimmed.
BatchResultUntrimmed(b) == b.sampled

\* The value _sample_batch returns.
BatchResult(b) == Head_(b.sampled, Min(Len(b.sampled), b.batch_size))

\* ------------------------------------------------ _sample_in_batches
InBatchesSize(num_rows, batch_size) ==
    IF num_rows > batch_size THEN batch_size ELSE num_rows

InBatchesInit(num_rows, batch_size) ==
    [num_rows |-> num_rows,
     batch_size |-> InBatchesSize(num_rows, batch_size),
     steps |-> CeilDiv(num_rows, InBatchesSize(num_rows, batch_size)),
     step |-> 0,
     sampled |-> <<>>]

InBatchesResult(i, last) == Head_(i.sampled \o last, i.num_rows)

\* ----------------------------------------------- _make_condition_dfs
\* A Condition is [column_values |-> << <<column, value>>, ... >>,
\* num_rows |-> n]; a DataFrame of conditions is [columns, rows].
KeysOf(c) == [i \in 1..Len(c.column_values) |-> c.column_values[i][1]]
ValuesOf(c) == [i \in 1..Len(c.column_values) |-> c.column_values[i][2]]

Front(s) == SubSeq(s, 1, Len(s) - 1)

\* The elements of s without repetition, in the order of first appearance
\* (the keys of the defaultdict).
RECURSIVE DistinctInOrder(_)
DistinctInOrder(s) ==
    IF s = <<>> THEN <<>>
    ELSE LET rest == DistinctInOrder(Front(s))
             x == s[Len(s)]
         IN  IF \E i \in 1..Len(rest) : rest[i] = x THEN rest
             ELSE Append(rest, x)

\* pd.concat of the frames of the conditions of `conditions` whose key
\* tuple is `keys`, in the order of the list.
RECURSIVE ConcatRows(_, _)
ConcatRows(conditions, keys) ==
    IF conditions = <<>> THEN <<>>
    ELSE LET c == conditions[Len(conditions)]
             before == ConcatRows(Front(conditions), keys)
         IN  IF KeysOf(c) = keys
             THEN before \o [i \in 1..c.num_rows |-> ValuesOf(c)]
             ELSE before

MakeConditionDfs(conditions) ==
    LET keys == DistinctInOrder([i \in 1..Len(conditions) |->
                                    KeysOf(conditions[i])])
    IN  [j \in 1..Len(keys) |->
            [columns |-> keys[j], rows |-> ConcatRows(conditions, keys[j])]]

\* functools.reduce over get_num_rows.
RECURSIVE TotalRows(_)
TotalRows(conditions) ==
    IF conditions = <<>> THEN 0
    ELSE TotalRows(Front(conditions)) + conditions[Len(conditions)].num_rows

\* A validation that lets every column pass.
ValidConditionsUnchecked(frame) == TRUE

\* _validate_conditions: every column is a field of the table.
ValidConditions(frame) ==
    \A i \in 1..Len(frame.columns) : frame.columns[i] \in Fields

\* -------------------------------------------- _sample_with_conditions
\* The order of group keys (tuples of the same length): lexicographic.
RECURSIVE TupleLess(_, _)
TupleLess(s, t) ==
    IF s = <<>> THEN FALSE
    ELSE \/ s[1] < t[1]
         \/ s[1] = t[1] /\ TupleLess(Tail(s), Tail(t))

RECURSIVE SortKeys(_)
SortKeys(S) ==
    IF S = {} THEN <<>>
    ELSE LET m == CHOOSE x \in S : \A y \in S \ {x} : TupleLess(x, y)
         IN  <<m>> \o SortKeys(S \ {m})

\* The index labels (0-based, equal to the COND_IDX values after
\* reset_index) of the rows of the frame that have the key, ascending.
RECURSIVE MembersUpTo(_, _, _)
MembersUpTo(rows, key, n) ==
    IF n = 0 THEN <<>>
    ELSE LET before == MembersUpTo(rows, key, n - 1)
         IN  IF rows[n] = key THEN Append(before, n - 1) ELSE before

\* A groupby whose groups hold the first of their rows only.
GroupbyFirstRows(frame) ==
    LET keys == SortKeys({frame.rows[i] : i \in 1..Len(frame.rows)})
    IN  [g \in 1..Len(keys) |->
            [key |-> keys[g],
             index |-> Head_(MembersUpTo(frame.rows, keys[g],
                                         Len(frame.rows)), 1)]]

\* conditions.groupby(condition_columns): the groups in key order, each
\* with the index labels of its rows.
Groupby(frame) ==
    LET keys == SortKeys({frame.rows[i] : i \in 1..Len(frame.rows)})
    IN  [g \in 1..Len(keys) |->
            [key |-> keys[g],
             index |-> MembersUpTo(frame.rows, keys[g], Len(frame.rows))]]

\* transformed_conditions[COND_IDX] = dataframe[COND_IDX]: the frame on the
\* left has the index 0..n-1 (concat with ignore_index), the series on the
\* right the index labels of the group, and the assignment aligns on the
\* index: label i gets the value of label i of the group, NaN if the
\* group has no such label.
AlignedCondIdx(index) ==
    [i \in 1..Len(index) |->
        IF \E j \in 1..Len(index) : index[j] = i - 1 THEN i - 1 ELSE NaN]

\* The COND_IDX column of the frame passed to _conditionally_sample_rows
\* for a group: the group's own when the transform yields no column.
PartitionCondIdx(index, num_transformed_columns) ==
    IF num_transformed_columns = 0 THEN index ELSE AlignedCondIdx(index)

\* The value of the id field of the row with the identity r, as
\* reverse_transform has set it.
IdOf(r) == IF r \in 1..Len(id_field) THEN id_field[r] ELSE 0

\* The values, on the condition columns, of a row that does not match the
\* condition: values that are not the requested ones.
StrayVals(key) == [i \in 1..Len(key) |-> 0]

\* _conditionally_sample_rows after _sample_in_batches: the sampled rows
\* with the first COND_IDX values; on the condition columns a row that
\* matches the condition has its values.
TagRows(sampled_rows, cond_idx, columns, key) ==
    [i \in 1..Len(sampled_rows) |->
        [idx |-> cond_idx[i], id |-> sampled_rows[i],
         id_field |-> IdOf(sampled_rows[i]),
         columns |-> columns,
         vals |-> IF sampled_rows[i] \in stray THEN StrayVals(key)
                  ELSE key]]

\* sort_index: the rows with a number as index in ascending order (the
\* first of equal ones first), then the rows with NaN in their order.
RECURSIVE SortNumbered(_)
SortNumbered(rows) ==
    IF rows = <<>> THEN <<>>
    ELSE LET m == CHOOSE i \in 1..Len(rows) :
                    /\ \A j \in 1..Len(rows) : rows[i].idx <= rows[j].idx
                    /\ \A j \in 1..(i - 1) : rows[j].idx # rows[i].idx
         IN  <<rows[m]>> \o
             SortNumbered(SubSeq(rows, 1, m - 1) \o
                          SubSeq(rows, m + 1, Len(rows)))

SortIndex(rows) ==
    SortNumbered(SelectSeq(rows, LAMBDA r : r.idx # NaN)) \o
    SelectSeq(rows, LAMBDA r : r.idx = NaN)

\* Table.make_ids_unique: when the values of the id field are not unique
\* they are replaced by _make_ids of the length of the frame.
MakeIdsUnique(rows) ==
    IF \A i, j \in 1..Len(rows) : rows[i].id_field = rows[j].id_field => i = j
    THEN rows
    ELSE [i \in 1..Len(rows) |->
            [rows[i] EXCEPT !.id_field = MakeIds(Len(rows))[i]]]

\* The end of _sample_with_conditions: concat, set_index, sort_index,
\* make_ids_unique.
FinishFrame(all_sampled_rows) ==
    IF Len(all_sampled_rows) = 0 THEN <<>>
    ELSE MakeIdsUnique(SortIndex(all_sampled_rows))

\* pd.concat([sampled, sampled_for_condition], ignore_index=True).
ConcatIgnoreIndex(sampled, more) ==
    LET all == sampled \o more
    IN  [i \in 1..Len(all) |-> [all[i] EXCEPT !.idx = i - 1]]

\* ------------------------------------------------- _filter_conditions
\* Numbers are in thousandths (9.999 is 9999) and float_rtol is a ratio
\* num/den with den > 0, so that the comparison of the code,
\* np.abs(column_values - value) <= value * float_rtol, is computed exactly.
WithinDistance(x, value, float_rtol) ==
    Abs(x - value) * float_rtol.den <= value * float_rtol.num

\* A snap that moves the value half of the way to the requested one.
SnapHalfway(row, column, value) ==
    [row EXCEPT ![column] = (row[column] + value) \div 2]

\* A matcher that does not make the value exact.
NoSnap(row, column, value) == row

\* sampled[column] = value, for a row of the frame.
Snap(row, column, value) == [row EXCEPT ![column] = value]

\* _filter_conditions: for each (column, value) of the dict in its order,
\* the rows that match are kept; on a column of kind 'f' the match is the
\* one within the distance and the value is then made exact. A column of
\* kind 'f' is taken to stay of kind 'f' when the value is assigned.
RECURSIVE FilterConditions(_, _, _, _)
FilterConditions(sampled, conditions, float_rtol, kinds) ==
    IF conditions = <<>> THEN sampled
    ELSE LET column == conditions[1][1]
             value == conditions[1][2]
             close == SelectSeq(sampled, LAMBDA row :
                          WithinDistance(row[column], value, float_rtol))
             equal == SelectSeq(sampled, LAMBDA row : row[column] = value)
             filtered ==
                 IF kinds[column] = "f"
                 THEN [i \in 1..Len(close) |-> Snap(close[i], column, value)]
                 ELSE equal
         IN  FilterConditions(filtered, Tail(conditions), float_rtol, kinds)

\* ------------------------------------------------- sdv.tabular.utils
\* check_num_rows: whether the number of rows sampled is the expected one;
\* if not it raises, naming the two levers.
CheckNumRows(num_rows, expected_num_rows) == num_rows >= expected_num_rows

InsufficientRows ==
    [type |-> "InsufficientRows",
     names |-> {"max_tries_per_batch", "batch_size"}]

\* handle_sampling_error: the file system after the call, which raises.
HandleSamplingError(is_tmp_file, path, fs) == fs

Error(type) == [type |-> type, names |-> {}]
NoError == Error("")
NotHandled == [called |-> FALSE, is_tmp_file |-> FALSE, path |-> ""]
NotChecked ==
    [called |-> FALSE, num_rows |-> 0, expected_num_rows |-> 0,
     is_reject_sampling |-> FALSE]

\* ------------------------------------------------------------ the calls
NoBatch == BatchInit(0)
NoInBatches == [num_rows |-> 0, batch_size |-> 0, steps |-> 0, step |-> 0,
                sampled |-> <<>>]
NoMatcher == [kinds |-> <<>>, before |-> <<>>, sampled |-> <<>>,
              conditions |-> <<>>, float_rtol |-> [num |-> 0, den |-> 1],
              runs |-> 0]
NoCond == [frames |-> <<>>, expected |-> 0, fi |-> 0, gi |-> 0,
           all_sampled_rows |-> <<>>, sampled |-> <<>>]

\* `batch_size or default`.
Or(batch_size, default) ==
    IF batch_size = None \/ batch_size = 0 THEN default ELSE batch_size

\* The exception raised before the sampling phase.
Raise(type) ==
    /\ pc' = "raised"
    /\ err' = Error(type)
    /\ UNCHANGED <<output_file_path, handled, batch, inb, cond, result,
                   last_id, id_field, generator_calls, sample_args, stray,
                   accepted_log>>

\* An except clause that removes the temporary file as the else clause does.
FailRemovesTmp(error) ==
    /\ handled' = [called |-> TRUE,
                   is_tmp_file |-> (output_file_path = "tmp"),
                   path |-> output_file_path]
    /\ files' = IF output_file_path = "tmp"
                THEN [files EXCEPT !.tmp = NoFile] ELSE files
    /\ pc' = "raised"
    /\ err' = error

\* The except clause of the entry points: handle_sampling_error is called
\* with the flag of the temporary file and the path, and raises.
FailWith(error, path, fs) ==
    /\ handled' = [called |-> TRUE,
                   is_tmp_file |-> (path = "tmp"),
                   path |-> path]
    /\ files' = HandleSamplingError(path = "tmp", path, fs)
    /\ pc' = "raised"
    /\ err' = error

\* The except clause once output_file_path holds the validated path.
Fail(error) == FailWith(error, output_file_path, files)

\* The else clause of the entry points, and the return.
Succeed(rows) ==
    /\ files' = RemoveTmp(output_file_path, files)
    /\ result' = rows
    /\ pc' = "returned"
    /\ err' = NoError

\* The rows of an unconditioned call as returned rows.
PlainRows(ids) ==
    [i \in 1..Len(ids) |->
        [idx |-> i - 1, id |-> ids[i], id_field |-> IdOf(ids[i]),
         columns |-> <<>>, vals |-> <<>>]]

\* _randomize_samples: the number of calls of _set_random_state after it,
\* one more unless self._model is None.
RandomizeSamples(model_class, calls) ==
    IF model_class = "None" THEN calls ELSE calls + 1

\* A sample that sets the random state and validates the file path
\* before it looks at its arguments.
SampleEnterValidatingFirst ==
    /\ pc = "call" /\ entry = "sample"
    /\ UNCHANGED <<unmet, matcher, entry, args, has_dtypes,
                   supports_conditions, files_at_call, model,
                   check_num_rows_args, n_transformed_columns>>
    /\ set_random_state_calls' =
           RandomizeSamples(model, set_random_state_calls)
    /\ LET v == ValidateFilePath(args.output_file_path, files)
           batch_size == IF args.batch_size # None /\ args.batch_size # 0
                         THEN Min(args.batch_size, args.num_rows)
                         ELSE args.num_rows
           i == InBatchesInit(args.num_rows, batch_size)
       IN  IF ~v.ok
           THEN Raise("AssertionError") /\ UNCHANGED files
           ELSE IF args.conditions_given
           THEN Raise("TypeError") /\ files' = v.fs
           ELSE IF args.num_rows = None
           THEN Raise("ValueError") /\ files' = v.fs
           ELSE IF args.num_rows = 0
           THEN /\ pc' = "returned"
                /\ result' = <<>>
                /\ files' = v.fs
                /\ UNCHANGED <<err, output_file_path, handled, batch, inb,
                               cond, last_id, id_field, generator_calls,
                               sample_args, stray, accepted_log>>
           ELSE /\ files' = v.fs
                /\ output_file_path' = v.path
                /\ inb' = i
                /\ batch' = BatchInit(i.batch_size)
                /\ pc' = "loop"
                /\ UNCHANGED <<err, handled, cond, result, last_id,
                               id_field, generator_calls, sample_args,
                               stray, accepted_log>>

\* sample / _sample_with_progress_bar up to the first round.
SampleEnter ==
    /\ pc = "call" /\ entry = "sample"
    /\ UNCHANGED <<unmet, matcher, entry, args, has_dtypes,
                   supports_conditions, files_at_call, model,
                   check_num_rows_args, n_transformed_columns>>
    /\ set_random_state_calls' =
           IF args.conditions_given \/ args.num_rows = None
              \/ args.num_rows = 0
           THEN set_random_state_calls
           ELSE RandomizeSamples(model, set_random_state_calls)
    /\ IF args.conditions_given
       THEN Raise("TypeError") /\ UNCHANGED files
       ELSE IF args.num_rows = None
       THEN Raise("ValueError") /\ UNCHANGED files
       ELSE IF args.num_rows = 0
       THEN /\ pc' = "returned"
            /\ result' = <<>>
            /\ UNCHANGED <<err, files, output_file_path, handled, batch, inb,
                           cond, last_id, id_field, generator_calls,
                           sample_args, stray, accepted_log>>
       ELSE LET v == ValidateFilePath(args.output_file_path, files)
                batch_size == IF args.batch_size # None /\ args.batch_size # 0
                              THEN Min(args.batch_size, args.num_rows)
                              ELSE args.num_rows
                i == InBatchesInit(args.num_rows, batch_size)
            IN  IF ~v.ok
                THEN Raise("AssertionError") /\ UNCHANGED files
                ELSE /\ files' = v.fs
                     /\ output_file_path' = v.path
                     /\ inb' = i
                     /\ batch' = BatchInit(i.batch_size)
                     /\ pc' = "loop"
                     /\ UNCHANGED <<err, handled, cond, result, last_id,
                                    id_field, generator_calls, sample_args,
                                    stray, accepted_log>>

\* The conditions and the transformed conditions _sample_batch is called
\* with: none by sample, the group's by _sample_with_conditions, with
\* transformed_condition=None when the transform yields no column.
RoundConditions == IF entry = "sample" THEN "None" ELSE "raw"

\* Transformed conditions that are passed on whatever the number of
\* columns the transform yields.
RoundTransformedConditionsOfGroup ==
    IF entry = "sample" THEN "None" ELSE "transformed"

\* The transformed conditions of the rounds of the call.
RoundTransformedConditions ==
    IF entry = "sample" \/ n_transformed_columns = 0
    THEN "None" ELSE "transformed"

\* The outcomes of a round that yields k rows: the candidates that pass the
\* filters and, when there are conditions, those that are valid and do not
\* match them.
Outcomes(k) ==
    {[passing |-> k, failing |-> j] :
        j \in 0..(IF RoundConditions = "None" THEN 0
                  ELSE Min(MaxStray, batch.num_rows_to_sample - k))}

\* The body of the loop of _sample_batch in a round with the outcome.
\* reverse_transform numbers the id field of the candidates from 0; the
\* candidates that are kept are taken to be the first of the round.
RoundYields(outcome) ==
    LET prev_num_valid == batch.num_valid
        r == SampleRows(batch.num_rows_to_sample, RoundConditions,
                        RoundTransformedConditions, batch.sampled, outcome,
                        has_dtypes)
        num_new_valid_rows == r.num_valid - prev_num_valid
        num_increase == NumIncrease(num_new_valid_rows, batch.remaining)
        remaining == batch.batch_size - r.num_valid
    IN  /\ files' =
              IF num_increase > 0 /\ output_file_path # ""
              THEN [files EXCEPT ![output_file_path] =
                      ToCsv(@, RowsToWrite(r.sampled, batch.batch_size,
                                           num_increase))]
              ELSE files
        /\ batch' = [batch EXCEPT
                !.sampled = r.sampled,
                !.num_valid = r.num_valid,
                !.prev_num_valid = prev_num_valid,
                !.remaining = remaining,
                !.num_rows_to_sample =
                    NextRequest(batch.batch_size, remaining,
                                num_new_valid_rows,
                                batch.num_rows_to_sample),
                !.counter = @ + 1]
        /\ last_id' = last_id + Len(r.sampled) - Len(batch.sampled)
                         + (IF has_dtypes THEN 0 ELSE Len(batch.sampled))
        /\ id_field' = id_field \o
              MakeIds(IF has_dtypes THEN Len(r.sampled) - Len(batch.sampled)
                      ELSE batch.num_rows_to_sample)
        /\ generator_calls' = generator_calls + 1
        /\ sample_args' = r.calls
        /\ stray' = stray \cup r.stray
        /\ accepted_log' = accepted_log \o
              SubSeq(r.sampled, prev_num_valid + 1,
                     Min(r.num_valid, batch.batch_size))

\* One iteration of the loop of _sample_batch, for every number of
\* candidates among `yields` that pass the filters.
RoundWith(yields) ==
    /\ pc = "loop"
    /\ LoopContinues(batch, args.max_tries_per_batch)
    /\ \E k \in yields :
          /\ k <= batch.num_rows_to_sample
          /\ \E outcome \in Outcomes(k) : RoundYields(outcome)
    /\ UNCHANGED <<unmet, matcher, entry, pc, err, args, has_dtypes,
                   supports_conditions, files_at_call, model,
                   check_num_rows_args, set_random_state_calls,
                   n_transformed_columns, output_file_path, handled, inb,
                   cond, result>>

\* One iteration of the loop, for every number of candidates that pass.
Round == RoundWith(0..MaxYield)

\* One iteration of the loop with a generator of which half of the
\* candidates of every round pass the filters.
RoundHalf == RoundWith({batch.num_rows_to_sample \div 2})

\* One iteration of the loop with a generator of which 0, 2, 6 or 8
\* candidates of a round pass the filters.
DriftYields == {0, 2, 6, 8}

RoundDrift == RoundWith(DriftYields)

\* An exception of the generator or of a filter, or a KeyboardInterrupt,
\* inside the sampling phase.
SamplingError ==
    /\ pc = "loop"
    /\ Fail(Error("SamplingError"))
    /\ UNCHANGED <<unmet, matcher, entry, args, has_dtypes,
                   supports_conditions, files_at_call, model,
                   check_num_rows_args, set_random_state_calls,
                   n_transformed_columns, output_file_path, batch, inb, cond,
                   result, last_id, id_field, generator_calls, sample_args,
                   stray, accepted_log>>

\* _sample_batch returns and _sample_in_batches starts the next batch.
BatchNext ==
    /\ pc = "loop"
    /\ ~LoopContinues(batch, args.max_tries_per_batch)
    /\ inb.step + 1 < inb.steps
    /\ inb' = [inb EXCEPT !.step = @ + 1,
                          !.sampled = @ \o BatchResult(batch)]
    /\ batch' = BatchInit(inb.batch_size)
    /\ UNCHANGED <<unmet, matcher, entry, pc, err, args, has_dtypes,
                   supports_conditions, files_at_call, model,
                   check_num_rows_args, set_random_state_calls,
                   n_transformed_columns, files, output_file_path, handled,
                   cond, result, last_id, id_field, generator_calls,
                   sample_args, stray, accepted_log>>

\* _sample_batch returns and it was the last batch.
LastBatchDone ==
    /\ pc = "loop"
    /\ ~LoopContinues(batch, args.max_tries_per_batch)
    /\ inb.step + 1 >= inb.steps

\* A return of sample that checks the number of rows as the conditioned
\* calls do.
SampleReturnChecked ==
    /\ LastBatchDone
    /\ entry = "sample"
    /\ IF CheckNumRows(Len(InBatchesResult(inb, BatchResult(batch))),
                       args.num_rows)
       THEN /\ Succeed(PlainRows(InBatchesResult(inb, BatchResult(batch))))
            /\ UNCHANGED handled
       ELSE Fail(InsufficientRows) /\ UNCHANGED result
    /\ UNCHANGED <<unmet, matcher, entry, args, has_dtypes,
                   supports_conditions, files_at_call, model,
                   check_num_rows_args, set_random_state_calls,
                   n_transformed_columns, output_file_path, batch, inb, cond,
                   last_id, id_field, generator_calls, sample_args, stray,
                   accepted_log>>

\* The last batch returns, in a call of sample: the clean-up and the
\* return, whatever the number of rows.
SampleReturn ==
    /\ LastBatchDone
    /\ entry = "sample"
    /\ Succeed(PlainRows(InBatchesResult(inb, BatchResult(batch))))
    /\ UNCHANGED <<unmet, matcher, entry, args, has_dtypes,
                   supports_conditions, files_at_call, model,
                   check_num_rows_args, set_random_state_calls,
                   n_transformed_columns, output_file_path, handled, batch,
                   inb, cond, last_id, id_field, generator_calls,
                   sample_args, stray, accepted_log>>

\* The start of _conditionally_sample_rows for group gi of frame fi.
StartPartition(frames, fi, gi, path, fs) ==
    LET g == Groupby(frames[fi])[gi]
        n == Len(g.index)
        i == InBatchesInit(n, Or(args.batch_size, n))
    IN  IF g.key \in unmet
        THEN /\ FailWith(Error("ConstraintsNotMetError"), path, fs)
             /\ UNCHANGED <<inb, batch>>
        ELSE /\ inb' = i
             /\ batch' = BatchInit(i.batch_size)
             /\ pc' = "loop"
             /\ files' = fs
             /\ UNCHANGED <<err, handled>>

\* _sample_conditions up to the first round.
SampleConditionsEnter ==
    /\ pc = "call" /\ entry = "sample_conditions"
    /\ UNCHANGED <<unmet, matcher, entry, args, has_dtypes,
                   supports_conditions, files_at_call, model,
                   check_num_rows_args, n_transformed_columns>>
    /\ LET v == ValidateFilePath(args.output_file_path, files)
           num_rows == TotalRows(args.conditions)
           frames == MakeConditionDfs(args.conditions)
       IN  IF ~v.ok
           THEN /\ Raise("AssertionError")
                /\ UNCHANGED <<files, set_random_state_calls>>
           ELSE IF \E j \in 1..Len(frames) : ~ValidConditions(frames[j])
           THEN /\ Raise("ValueError")
                /\ files' = v.fs
                /\ UNCHANGED set_random_state_calls
           ELSE /\ output_file_path' = v.path
                /\ set_random_state_calls' =
                       RandomizeSamples(model, set_random_state_calls)
                /\ cond' = [frames |-> frames, expected |-> num_rows,
                            fi |-> 1, gi |-> 1,
                            all_sampled_rows |-> <<>>, sampled |-> <<>>]
                /\ StartPartition(frames, 1, 1, v.path, v.fs)
                /\ UNCHANGED <<result, last_id, id_field, generator_calls,
                               sample_args, stray, accepted_log>>

\* _sample_remaining_columns up to the first round.
SampleRemainingColumnsEnter ==
    /\ pc = "call" /\ entry = "sample_remaining_columns"
    /\ UNCHANGED <<unmet, matcher, entry, args, has_dtypes,
                   supports_conditions, files_at_call, model,
                   check_num_rows_args, n_transformed_columns>>
    /\ LET v == ValidateFilePath(args.output_file_path, files)
           frames == <<args.known_columns>>
       IN  IF ~v.ok
           THEN /\ Raise("AssertionError")
                /\ UNCHANGED <<files, set_random_state_calls>>
           ELSE IF ~ValidConditions(args.known_columns)
           THEN /\ Raise("ValueError")
                /\ files' = v.fs
                /\ set_random_state_calls' =
                       RandomizeSamples(model, set_random_state_calls)
           ELSE /\ output_file_path' = v.path
                /\ set_random_state_calls' =
                       RandomizeSamples(model, set_random_state_calls)
                /\ cond' = [frames |-> frames,
                            expected |-> Len(args.known_columns.rows),
                            fi |-> 1, gi |-> 1,
                            all_sampled_rows |-> <<>>, sampled |-> <<>>]
                /\ StartPartition(frames, 1, 1, v.path, v.fs)
                /\ UNCHANGED <<result, last_id, id_field, generator_calls,
                               sample_args, stray, accepted_log>>

\* all_sampled_rows after _conditionally_sample_rows has returned for the
\* current group.
WithPartition ==
    LET frame == cond.frames[cond.fi]
        g == Groupby(frame)[cond.gi]
        sampled_rows == InBatchesResult(inb, BatchResult(batch))
    IN  cond.all_sampled_rows \o
        TagRows(sampled_rows,
                PartitionCondIdx(g.index, n_transformed_columns),
                frame.columns, g.key)

\* The partition of a group is done and the next group of the frame starts.
PartitionNext ==
    /\ LastBatchDone
    /\ entry # "sample"
    /\ cond.gi < Len(Groupby(cond.frames[cond.fi]))
    /\ cond' = [cond EXCEPT !.gi = @ + 1, !.all_sampled_rows = WithPartition]
    /\ StartPartition(cond.frames, cond.fi, cond.gi + 1, output_file_path,
                      files)
    /\ UNCHANGED <<unmet, matcher, entry, args, has_dtypes,
                   supports_conditions, files_at_call, model,
                   check_num_rows_args, set_random_state_calls,
                   n_transformed_columns, output_file_path, result, last_id,
                   id_field, generator_calls, sample_args, stray,
                   accepted_log>>

\* _sample_with_conditions returns for a frame of sample_conditions and
\* the next frame starts.
FrameNext ==
    /\ LastBatchDone
    /\ entry = "sample_conditions"
    /\ cond.gi = Len(Groupby(cond.frames[cond.fi]))
    /\ cond.fi < Len(cond.frames)
    /\ cond' = [cond EXCEPT
            !.fi = @ + 1, !.gi = 1, !.all_sampled_rows = <<>>,
            !.sampled = ConcatIgnoreIndex(@, FinishFrame(WithPartition))]
    /\ StartPartition(cond.frames, cond.fi + 1, 1, output_file_path, files)
    /\ UNCHANGED <<unmet, matcher, entry, args, has_dtypes,
                   supports_conditions, files_at_call, model,
                   check_num_rows_args, set_random_state_calls,
                   n_transformed_columns, output_file_path, result, last_id,
                   id_field, generator_calls, sample_args, stray,
                   accepted_log>>

\* The rows sampled by a conditioned call when its last partition is done.
ConditionedSampled ==
    IF entry = "sample_conditions"
    THEN ConcatIgnoreIndex(cond.sampled, FinishFrame(WithPartition))
    ELSE FinishFrame(WithPartition)

\* An end of the conditioned calls without check_num_rows.
ConditionedReturnUnchecked ==
    /\ LastBatchDone
    /\ entry # "sample"
    /\ cond.gi = Len(Groupby(cond.frames[cond.fi]))
    /\ cond.fi = Len(cond.frames)
    /\ Succeed(ConditionedSampled) /\ UNCHANGED handled
    /\ cond' = [cond EXCEPT !.sampled = ConditionedSampled]
    /\ UNCHANGED <<unmet, matcher, entry, args, has_dtypes,
                   supports_conditions, files_at_call, model,
                   check_num_rows_args, set_random_state_calls,
                   n_transformed_columns, output_file_path, batch, inb,
                   last_id, id_field, generator_calls, sample_args, stray,
                   accepted_log>>

\* The classes of self._model: None, the Gaussian copula of
\* copulas.multivariate, any other. The attribute is there: without it
\* _randomize_samples raises AttributeError when the call starts.
Models == {"None", "GaussianMultivariate", "other"}

\* The is_reject_sampling that the entry point passes to check_num_rows:
\* hasattr(self, '_model') and (not) isinstance(self._model,
\* GaussianMultivariate).
IsRejectSampling(entry_point, model_class) ==
    IF entry_point = "sample_conditions"
    THEN model_class # "GaussianMultivariate"
    ELSE model_class = "GaussianMultivariate"

\* The last partition is done: check_num_rows, then the clean-up and the
\* return, or the failure path.
ConditionedReturn ==
    /\ LastBatchDone
    /\ entry # "sample"
    /\ cond.gi = Len(Groupby(cond.frames[cond.fi]))
    /\ cond.fi = Len(cond.frames)
    /\ IF CheckNumRows(Len(ConditionedSampled), cond.expected)
       THEN Succeed(ConditionedSampled) /\ UNCHANGED handled
       ELSE Fail(InsufficientRows) /\ UNCHANGED result
    /\ cond' = [cond EXCEPT !.sampled = ConditionedSampled]
    /\ check_num_rows_args' =
           [called |-> TRUE, num_rows |-> Len(ConditionedSampled),
            expected_num_rows |-> cond.expected,
            is_reject_sampling |-> IsRejectSampling(entry, model)]
    /\ UNCHANGED <<unmet, matcher, entry, args, has_dtypes,
                   supports_conditions, files_at_call, model,
                   set_random_state_calls, n_transformed_columns,
                   output_file_path, batch, inb, last_id, id_field,
                   generator_calls, sample_args, stray, accepted_log>>

\* ------------------------------------------------------------ the inputs
NoArgs ==
    [num_rows |-> None, batch_size |-> None, max_tries_per_batch |-> 0,
     output_file_path |-> "", conditions_given |-> FALSE,
     conditions |-> <<>>, known_columns |-> [columns |-> <<>>, rows |-> <<>>]]

FileSystems ==
    [tmp : {NoFile, StaleFile}, user : {NoFile, StaleFile}]
CleanFiles == [tmp |-> NoFile, user |-> NoFile]
OutputArgs == {"", "user", "disable"}

InitCommon ==
    /\ pc = "call"
    /\ err = NoError
    /\ output_file_path = ""
    /\ handled = NotHandled
    /\ batch = NoBatch
    /\ inb = NoInBatches
    /\ cond = NoCond
    /\ result = <<>>
    /\ last_id = 0
    /\ accepted_log = <<>>
    /\ id_field = <<>>
    /\ generator_calls = 0
    /\ sample_args = <<>>
    /\ stray = {}
    /\ check_num_rows_args = NotChecked
    /\ set_random_state_calls = 0

\* The calls of sample.
InitSample ==
    /\ InitCommon
    /\ unmet = {}
    /\ matcher = NoMatcher
    /\ entry = "sample"
    /\ has_dtypes \in BOOLEAN
    /\ supports_conditions = TRUE
    /\ n_transformed_columns = 0
    /\ files \in FileSystems
    /\ files_at_call = files
    /\ model = "GaussianMultivariate"
    /\ \E n \in {None} \cup 0..MaxRows, b \in {None} \cup 1..MaxRows,
          t \in 0..MaxTries, o \in OutputArgs, c \in BOOLEAN :
          args = [NoArgs EXCEPT !.num_rows = n, !.batch_size = b,
                                !.max_tries_per_batch = t,
                                !.output_file_path = o,
                                !.conditions_given = c]

\* The frames of known columns: one column, up to MaxRows rows.
KnownColumns ==
    {[columns |-> <<c>>, rows |-> [i \in 1..n |-> <<f[i]>>]] :
        c \in {"a"}, n \in 1..MaxRows, f \in [1..MaxRows -> Vals]}
    \cup {[columns |-> <<"z">>, rows |-> << <<1>> >>]}

\* The Conditions: on one column, on two columns in both orders, and on a
\* column the table does not have.
ColumnValues ==
    {<< <<"a", v>> >> : v \in Vals} \cup
    {<< <<"b", 1>> >>, << <<"a", 1>>, <<"b", 1>> >>, << <<"b", 1>>, <<"a", 1>> >>,
     << <<"z", 1>> >>}
Conditions ==
    [column_values : ColumnValues, num_rows : 1..MaxRows]
ConditionLists ==
    {cs \in UNION {[1..n -> Conditions] : n \in 1..MaxRows} :
        TotalRows(cs) <= MaxRows}

\* The conditioned calls without an output path on a clean file system:
\* every list of Conditions with a budget of one round, every frame of
\* known columns with every budget.
InitConditions ==
    /\ InitCommon
    /\ unmet = {}
    /\ matcher = NoMatcher
    /\ has_dtypes = TRUE
    /\ supports_conditions = TRUE
    /\ n_transformed_columns \in {0, 1}
    /\ files = CleanFiles
    /\ files_at_call = files
    /\ model = "GaussianMultivariate"
    /\ \/ /\ entry = "sample_conditions"
          /\ \E cs \in ConditionLists :
                args = [NoArgs EXCEPT !.conditions = cs,
                                      !.max_tries_per_batch = 1]
       \/ /\ entry = "sample_remaining_columns"
          /\ \E k \in KnownColumns, t \in 1..MaxTries :
                args = [NoArgs EXCEPT !.known_columns = k,
                                      !.max_tries_per_batch = t]

\* The conditioned calls on two conditions, with every output argument,
\* file system and batch size.
InitConditionedFiles ==
    /\ InitCommon
    /\ unmet = {}
    /\ matcher = NoMatcher
    /\ has_dtypes = TRUE
    /\ supports_conditions \in BOOLEAN
    /\ n_transformed_columns \in {0, 1}
    /\ files \in FileSystems
    /\ files_at_call = files
    /\ model = "GaussianMultivariate"
    /\ \E o \in OutputArgs, b \in {None, 1}, t \in 0..MaxTries :
        \/ /\ entry = "sample_conditions"
           /\ args = [NoArgs EXCEPT
                 !.conditions =
                     <<[column_values |-> << <<"a", 2>> >>, num_rows |-> 2],
                       [column_values |-> << <<"a", 1>> >>, num_rows |-> 1]>>,
                 !.max_tries_per_batch = t, !.batch_size = b,
                 !.output_file_path = o]
        \/ /\ entry = "sample_remaining_columns"
           /\ args = [NoArgs EXCEPT
                 !.known_columns =
                     [columns |-> <<"a">>, rows |-> << <<2>>, <<1>>, <<2>> >>],
                 !.max_tries_per_batch = t, !.batch_size = b,
                 !.output_file_path = o]

\* The conditioned calls in which the fitted constraints reject one of the
\* values of column a: the transform of a group with that value raises.
InitUnmet ==
    /\ InitCommon
    /\ has_dtypes = TRUE
    /\ supports_conditions = TRUE
    /\ n_transformed_columns = 1
    /\ files = CleanFiles
    /\ files_at_call = files
    /\ model = "GaussianMultivariate"
    /\ matcher = NoMatcher
    /\ \E v \in Vals : unmet = {<<v>>}
    /\ \/ /\ entry = "sample_remaining_columns"
          /\ \E k \in KnownColumns :
                args = [NoArgs EXCEPT !.known_columns = k,
                                      !.max_tries_per_batch = 1]
       \/ /\ entry = "sample_conditions"
          /\ \E v, w \in Vals :
                args = [NoArgs EXCEPT
                    !.conditions =
                        <<[column_values |-> << <<"b", 1>> >>, num_rows |-> 1],
                          [column_values |-> << <<"a", v>> >>, num_rows |-> 1],
                          [column_values |-> << <<"a", w>> >>, num_rows |-> 1]>>,
                    !.max_tries_per_batch = 1]

\* The frames and the conditions of the matcher: a column `price` of
\* kind 'f' or 'i' and a column `qty` of kind 'i'.
PriceValues == {-10000, 0, 9000, 9999, 10020, 11000}
PriceConditions == {-10000, 0, 9999}
QtyValues == {1, 2}
MatcherRows == [price : PriceValues, qty : QtyValues]
MatcherFrames == UNION {[1..n -> MatcherRows] : n \in 0..MaxSampled}
MatcherConditions ==
    {<<>>} \cup
    {<< <<"price", v>> >> : v \in PriceConditions} \cup
    {<< <<"qty", w>> >> : w \in QtyValues} \cup
    {<< <<"price", v>>, <<"qty", w>> >> :
        v \in PriceConditions, w \in QtyValues} \cup
    {<< <<"qty", w>>, <<"price", v>> >> :
        v \in PriceConditions, w \in QtyValues}
FloatRtols == {[num |-> 0, den |-> 1], [num |-> 1, den |-> 10]}

\* The calls of _filter_conditions.
InitMatcher ==
    /\ InitCommon
    /\ entry = "_filter_conditions"
    /\ args = NoArgs
    /\ has_dtypes = TRUE
    /\ supports_conditions = TRUE
    /\ n_transformed_columns = 0
    /\ files = CleanFiles
    /\ files_at_call = files
    /\ model = "GaussianMultivariate"
    /\ unmet = {}
    /\ \E k \in {"f", "i"}, f \in MatcherFrames, c \in MatcherConditions,
          r \in FloatRtols :
          matcher = [kinds |-> [price |-> k, qty |-> "i"],
                     before |-> f, sampled |-> f, conditions |-> c,
                     float_rtol |-> r, runs |-> 0]

\* _filter_conditions is applied to the frame, which is then the value it
\* has returned.
FilterConditionsRun ==
    /\ entry = "_filter_conditions"
    /\ matcher.runs < MaxRuns
    /\ matcher' = [matcher EXCEPT
            !.before = matcher.sampled,
            !.sampled = FilterConditions(matcher.sampled, matcher.conditions,
                                         matcher.float_rtol, matcher.kinds),
            !.runs = @ + 1]
    /\ UNCHANGED <<entry, pc, err, args, has_dtypes, supports_conditions,
                   files_at_call, model, check_num_rows_args,
                   set_random_state_calls, n_transformed_columns, files,
                   output_file_path, handled, batch, inb, cond, result,
                   last_id, accepted_log, unmet, id_field, generator_calls,
                   sample_args, stray>>

SpecMatcher == InitMatcher /\ [][FilterConditionsRun]_vars

\* The calls of sample with an even number of rows, in one batch, on a
\* table with data columns.
InitHalf ==
    /\ InitCommon
    /\ entry = "sample"
    /\ has_dtypes = TRUE
    /\ supports_conditions = TRUE
    /\ n_transformed_columns = 0
    /\ files = CleanFiles
    /\ files_at_call = files
    /\ model = "GaussianMultivariate"
    /\ unmet = {}
    /\ matcher = NoMatcher
    /\ \E n \in {m \in 2..MaxTarget : m % 2 = 0}, t \in {2, MaxTarget} :
          args = [NoArgs EXCEPT !.num_rows = n, !.max_tries_per_batch = t]

NextHalf == SampleEnter \/ RoundHalf \/ SampleReturn

SpecHalf == InitHalf /\ [][NextHalf]_vars

\* The calls of sample with up to MaxRows rows in one batch and a budget of
\* MaxRounds rounds, in which the requests grow up to the cap.
InitCap ==
    /\ InitCommon
    /\ entry = "sample"
    /\ has_dtypes = TRUE
    /\ supports_conditions = TRUE
    /\ n_transformed_columns = 0
    /\ files = CleanFiles
    /\ files_at_call = files
    /\ model = "GaussianMultivariate"
    /\ unmet = {}
    /\ matcher = NoMatcher
    /\ \E n \in 1..MaxRows, t \in 0..MaxRounds :
          args = [NoArgs EXCEPT !.num_rows = n, !.max_tries_per_batch = t,
                                !.output_file_path = "disable"]

NextCap == SampleEnter \/ Round \/ SampleReturn

SpecCap == InitCap /\ [][NextCap]_vars

\* The call sample(19, max_tries_per_batch=7), in one batch.
InitDrift ==
    /\ InitCommon
    /\ entry = "sample"
    /\ has_dtypes = TRUE
    /\ supports_conditions = TRUE
    /\ n_transformed_columns = 0
    /\ files = CleanFiles
    /\ files_at_call = files
    /\ model = "GaussianMultivariate"
    /\ unmet = {}
    /\ matcher = NoMatcher
    /\ args = [NoArgs EXCEPT !.num_rows = 19, !.max_tries_per_batch = 7,
                              !.output_file_path = "disable"]

NextDrift == SampleEnter \/ RoundDrift \/ SampleReturn

SpecDrift == InitDrift /\ [][NextDrift]_vars

\* The calls of sample, under the assumption that a call that can take a
\* step does take one.
NextSample ==
    \/ SampleEnter
    \/ Round
    \/ SamplingError
    \/ BatchNext
    \/ SampleReturn

SpecLoop == InitSample /\ [][NextSample]_vars /\ WF_vars(NextSample)

\* The conditioned calls for two rows on one condition column, on every
\* class of model and with every budget.
InitShortfall ==
    /\ InitCommon
    /\ unmet = {}
    /\ matcher = NoMatcher
    /\ has_dtypes = TRUE
    /\ supports_conditions = TRUE
    /\ n_transformed_columns = 0
    /\ files = CleanFiles
    /\ files_at_call = files
    /\ model \in Models
    /\ \E t \in 0..MaxTries :
        \/ /\ entry = "sample_conditions"
           /\ args = [NoArgs EXCEPT
                 !.conditions =
                     <<[column_values |-> << <<"a", 1>> >>, num_rows |-> 1],
                       [column_values |-> << <<"a", 2>> >>, num_rows |-> 1]>>,
                 !.max_tries_per_batch = t,
                 !.output_file_path = "disable"]
        \/ /\ entry = "sample_remaining_columns"
           /\ args = [NoArgs EXCEPT
                 !.known_columns =
                     [columns |-> <<"a">>, rows |-> << <<1>>, <<2>> >>],
                 !.max_tries_per_batch = t,
                 !.output_file_path = "disable"]

NextShortfall ==
    \/ SampleConditionsEnter
    \/ SampleRemainingColumnsEnter
    \/ Round
    \/ PartitionNext
    \/ ConditionedReturn

SpecShortfall == InitShortfall /\ [][NextShortfall]_vars

Init == InitSample \/ InitConditions \/ InitConditionedFiles \/ InitUnmet

Next ==
    \/ SampleEnter
    \/ SampleConditionsEnter
    \/ SampleRemainingColumnsEnter
    \/ Round
    \/ SamplingError
    \/ BatchNext
    \/ SampleReturn
    \/ PartitionNext
    \/ FrameNext
    \/ ConditionedReturn

Spec == Init /\ [][Next]_vars

\* ------------------------------------------------------------ the claims
\* The rows requested by a list of Conditions, in submission order: the
\* column values of the Condition each requested row belongs to.
RECURSIVE RequestedRows(_)
RequestedRows(conditions) ==
    IF conditions = <<>> THEN <<>>
    ELSE LET c == conditions[Len(conditions)]
         IN  RequestedRows(Front(conditions)) \o
             [i \in 1..c.num_rows |-> c.column_values]

\* The row has the value of every column of the column values.
Satisfies(row, column_values) ==
    \A i \in 1..Len(column_values) :
        \E j \in 1..Len(row.columns) :
            /\ row.columns[j] = column_values[i][1]
            /\ row.vals[j] = column_values[i][2]

\* C1: every row returned by sample_remaining_columns carries the index t
\* of a row of known_columns and has, on the condition columns, the values
\* of row t of known_columns.
C1_RowsMatchInputRows ==
    (pc = "returned" /\ entry = "sample_remaining_columns") =>
        \A i \in 1..Len(result) :
            /\ result[i].idx \in 0..(Len(args.known_columns.rows) - 1)
            /\ result[i].vals = args.known_columns.rows[result[i].idx + 1]

\* The value with as many values above it as v has below it: renaming a
\* frame by Mirror keeps the places of its groups and reverses the order
\* of their keys, which is the order in which the groups are executed.
Mirror(v) ==
    CHOOSE w \in Vals :
        Cardinality({u \in Vals : u > w}) = Cardinality({u \in Vals : u < v})

MirrorFrame(frame) ==
    [frame EXCEPT !.rows =
        [i \in 1..Len(frame.rows) |->
            [j \in 1..Len(frame.rows[i]) |-> Mirror(frame.rows[i][j])]]]

\* all_sampled_rows of _sample_with_conditions on the frame after its
\* first n groups, when every partition returns as many rows as its group.
RECURSIVE AllSampledRows(_, _)
AllSampledRows(frame, n) ==
    IF n = 0 THEN <<>>
    ELSE LET g == Groupby(frame)[n]
         IN  AllSampledRows(frame, n - 1) \o
             TagRows([i \in 1..Len(g.index) |-> 0],
                     PartitionCondIdx(g.index, n_transformed_columns),
                     frame.columns, g.key)

\* The values, by output position, that _sample_with_conditions returns
\* for the frame when every partition reaches its target.
CompleteValues(frame) ==
    LET rows == FinishFrame(AllSampledRows(frame, Len(Groupby(frame))))
    IN  [i \in 1..Len(rows) |-> rows[i].vals]

\* C2: the condition values at each output position do not depend on the
\* order in which the partitions are executed: for a completed call, the
\* call on the mirrored frame, which executes the same partitions in the
\* reverse order, returns at every position the mirrored values.
C2_OrderIndependentOfExecution ==
    (pc = "returned" /\ entry = "sample_remaining_columns") =>
        LET other == CompleteValues(MirrorFrame(args.known_columns))
        IN  \A i \in 1..Len(result) :
                other[i] = [j \in 1..Len(result[i].vals) |->
                               Mirror(result[i].vals[j])]

\* C3: when sample_conditions returns, the k-th returned row satisfies the
\* Condition the k-th requested row belongs to, for every k of 0..K-1.
C3_SubmissionOrder ==
    (pc = "returned" /\ entry = "sample_conditions") =>
        LET requested == RequestedRows(args.conditions)
        IN  /\ Len(result) = Len(requested)
            /\ \A k \in 1..Len(requested) :
                   /\ result[k].idx = k - 1
                   /\ Satisfies(result[k], requested[k])

\* C4: _sample_batch returns at most batch_size rows, _sample_in_batches
\* and sample at most num_rows rows.
C4_NeverMoreThanRequested ==
    /\ Len(BatchResult(batch)) <= batch.batch_size
    /\ Len(InBatchesResult(inb, BatchResult(batch))) <= inb.num_rows
    /\ (pc = "returned" /\ entry = "sample") => Len(result) <= args.num_rows

\* The loop has accepted more rows than the batch size, and the call of
\* sample has returned exactly the rows requested.
C4_Witness ==
    /\ pc = "returned" /\ entry = "sample"
    /\ batch.num_valid > batch.batch_size
    /\ Len(result) = args.num_rows

\* C5 as stated: after every round the frame held by the loop and its
\* count num_valid have at most batch_size rows.
C5_LoopStateNeverOvershoots ==
    /\ batch.num_valid <= batch.batch_size
    /\ Len(batch.sampled) <= batch.batch_size

\* C5 amended: the frame carried into a round (prev_num_valid rows) has
\* fewer than batch_size rows and the value returned has at most
\* batch_size rows; the frame held after the last round may have more.
C5_CarriedFrameBelowTarget ==
    /\ batch.prev_num_valid # None =>
           batch.prev_num_valid < batch.batch_size
    /\ Len(BatchResult(batch)) <= batch.batch_size

\* A round has ended the loop with more rows than batch_size.
C5_Witness ==
    /\ pc = "loop"
    /\ batch.prev_num_valid # None
    /\ batch.prev_num_valid > 0
    /\ batch.num_valid > batch.batch_size

\* C6: a conditioned call never returns fewer rows than requested; when
\* its partitions are done with fewer rows, it raises the error that
\* names max_tries_per_batch and batch_size.
C6_ShortfallRaises ==
    entry # "sample" =>
        /\ pc = "returned" => Len(result) >= cond.expected
        /\ (pc = "raised" /\ handled.called /\
            err.type \notin {"SamplingError", "ConstraintsNotMetError"}) =>
               /\ Len(cond.sampled) < cond.expected
               /\ err.type = "InsufficientRows"
               /\ {"max_tries_per_batch", "batch_size"} \subseteq err.names

\* A conditioned call has raised with some rows, fewer than requested.
C6_Witness ==
    /\ entry # "sample" /\ pc = "raised"
    /\ err.type = "InsufficientRows"
    /\ Len(cond.sampled) > 0
    /\ Len(cond.sampled) < cond.expected

\* C7: a call of sample with num_rows >= 1 in which nothing fails returns
\* min(num_rows, rows accepted within the retry budget) rows, and sample
\* never raises for a shortfall.
C7_UnconditionedNeverRaisesForShortfall ==
    entry = "sample" =>
        /\ (pc = "returned" /\ args.num_rows >= 1) =>
               Len(result) = Min(args.num_rows, Len(accepted_log))
        /\ pc = "raised" =>
               err.type \in {"TypeError", "ValueError", "AssertionError",
                             "SamplingError"}
        /\ (pc = "loop" /\ ~LoopContinues(batch, args.max_tries_per_batch)) =>
               ENABLED (BatchNext \/ SampleReturn)

\* A call of sample has returned some rows, fewer than requested.
C7_Witness ==
    /\ entry = "sample" /\ pc = "returned"
    /\ Len(result) > 0
    /\ Len(result) < args.num_rows

\* The sampling phase has been interrupted.
Interrupted == pc = "raised" /\ err.type = "SamplingError"

C9_FilesAfterSuccess ==
    pc = "returned" =>
        /\ args.output_file_path = "" => ~files.tmp.exists
        /\ (args.output_file_path = "user" /\ output_file_path = "user") =>
               files.user.exists

\* C9 amended: the same, the temporary file only for the calls that return
\* after _validate_file_path has run, which are all but sample with
\* num_rows = 0.
C9_FilesAfterValidatedSuccess ==
    pc = "returned" =>
        /\ (args.output_file_path = "" /\
            ~(entry = "sample" /\ args.num_rows = 0)) => ~files.tmp.exists
        /\ (args.output_file_path = "user" /\ output_file_path = "user") =>
               files.user.exists

\* A call without a path has returned rows that were written to the
\* temporary file.
C9_Witness ==
    /\ pc = "returned" /\ args.output_file_path = ""
    /\ output_file_path = "tmp"
    /\ Len(result) > 0
    /\ ~files.tmp.exists

\* C10: a failure inside the sampling phase calls handle_sampling_error
\* with the flag that tells whether the file is the temporary one and
\* with the path, and leaves every file as it is.
C10_FailureKeepsFile ==
    [][(pc = "loop" /\ pc' = "raised") =>
          /\ handled'.called
          /\ handled'.is_tmp_file = (args.output_file_path = "")
          /\ handled'.path = output_file_path
          /\ files' = files]_vars

\* A call has failed with rows in the temporary file.
C10_Witness ==
    /\ pc = "raised" /\ handled.called /\ handled.is_tmp_file
    /\ files.tmp.exists
    /\ Len(DataRows(files.tmp)) > 0

\* C11 as stated: a call that starts with a file at the caller's path
\* raises; no round has run and the file system is as it was.
C11_ExistingPathRaises ==
    [][(pc = "call" /\ args.output_file_path = "user" /\ files.user.exists) =>
          /\ pc' = "raised"
          /\ files' = files
          /\ generator_calls' = 0]_vars

\* C11 amended: such a call raises, or it is sample with num_rows = 0 and
\* conditions not given, which returns the empty frame; in both cases no
\* round has run and the file system is as it was.
C11_ExistingPathNeverTouched ==
    [][(pc = "call" /\ args.output_file_path = "user" /\ files.user.exists) =>
          /\ files' = files
          /\ generator_calls' = 0
          /\ \/ pc' = "raised"
             \/ /\ entry = "sample" /\ args.num_rows = 0
                /\ ~args.conditions_given
                /\ pc' = "returned" /\ result' = <<>>]_vars

\* A conditioned call has raised the AssertionError of the path check; the
\* caller's file has the lines it had.
C11_Witness ==
    /\ entry = "sample_conditions" /\ pc = "raised"
    /\ err.type = "AssertionError"
    /\ args.output_file_path = "user"
    /\ files.user = StaleFile
    /\ generator_calls = 0

\* The row matches the condition: within the distance on a column of kind
\* 'f', equal on any other column.
RowMatches(row, conditions, float_rtol, kinds) ==
    \A i \in 1..Len(conditions) :
        LET column == conditions[i][1]
            value == conditions[i][2]
        IN  IF kinds[column] = "f"
            THEN Abs(row[column] - value) * float_rtol.den
                     <= value * float_rtol.num
            ELSE row[column] = value

\* The row with the requested value on every condition column.
RowSnapped(row, conditions) ==
    [c \in DOMAIN row |->
        IF \E i \in 1..Len(conditions) : conditions[i][1] = c
        THEN conditions[CHOOSE i \in 1..Len(conditions) :
                            conditions[i][1] = c][2]
        ELSE row[c]]

\* C12: _filter_conditions keeps exactly the rows that match, in their
\* order, each with the requested value on every condition column; the
\* candidate 10.02 for price = 9.999 with rtol = 0.1 comes out as 9.999.
C12_KeptWithinToleranceAndSnapped ==
    matcher.runs = 1 =>
        LET kept == SelectSeq(matcher.before, LAMBDA row :
                        RowMatches(row, matcher.conditions,
                                   matcher.float_rtol, matcher.kinds))
        IN  /\ matcher.sampled =
                   [i \in 1..Len(kept) |->
                       RowSnapped(kept[i], matcher.conditions)]
            /\ \A i \in 1..Len(matcher.sampled) :
                   \A j \in 1..Len(matcher.conditions) :
                       matcher.sampled[i][matcher.conditions[j][1]]
                           = matcher.conditions[j][2]

\* The candidate 10.02 has been kept for price = 9.999 with rtol = 0.1 and
\* is 9.999 in the output, and the candidate 11.0 has been dropped.
C12_Witness ==
    /\ matcher.runs = 1
    /\ matcher.kinds = [price |-> "f", qty |-> "i"]
    /\ matcher.conditions = << <<"price", 9999>> >>
    /\ matcher.float_rtol = [num |-> 1, den |-> 10]
    /\ matcher.before = <<[price |-> 10020, qty |-> 1],
                          [price |-> 11000, qty |-> 1]>>
    /\ matcher.sampled = <<[price |-> 9999, qty |-> 1]>>

\* C13: _filter_conditions applied to its own output with the same
\* condition and rtol returns it unchanged.
C13_MatcherIdempotent ==
    matcher.runs >= 2 => matcher.sampled = matcher.before

\* The matcher has run twice on a frame of which it had kept and snapped
\* a row and dropped a row.
C13_Witness ==
    /\ matcher.runs = 2
    /\ Len(matcher.sampled) = 1
    /\ matcher.kinds.price = "f"
    /\ \E i \in 1..Len(matcher.conditions) :
           /\ matcher.conditions[i][1] = "price"
           /\ matcher.conditions[i][2] = 9999
    /\ matcher.float_rtol.num > 0

\* The column values of a Condition as a mapping: its set of pairs.
Mapping(column_values) ==
    {column_values[i] : i \in 1..Len(column_values)}

\* The number of rows requested with the column values column_values.
RECURSIVE RowsRequestedFor(_, _)
RowsRequestedFor(conditions, column_values) ==
    IF conditions = <<>> THEN 0
    ELSE LET c == conditions[Len(conditions)]
         IN  RowsRequestedFor(Front(conditions), column_values) +
             (IF c.column_values = column_values THEN c.num_rows ELSE 0)

C15_ReturnedIdsUnique ==
    (entry = "sample_conditions" /\ pc = "returned") =>
        \A i, j \in 1..Len(result) :
            result[i].id_field = result[j].id_field => i = j

\* The call has a Condition, or a known column, that is not a field.
UnknownColumn ==
    \/ /\ entry = "sample_conditions"
       /\ \E i \in 1..Len(args.conditions) :
              \E k \in 1..Len(args.conditions[i].column_values) :
                  args.conditions[i].column_values[k][1] \notin Fields
    \/ /\ entry = "sample_remaining_columns"
       /\ \E k \in 1..Len(args.known_columns.columns) :
              args.known_columns.columns[k] \notin Fields

\* C16: a conditioned call whose caller path exists or that names a column
\* that is not a field raises in its first step: no call of the generator
\* has been made and no loop has been set up.
C16_ConfigurationErrorsBeforeSampling ==
    [][(/\ pc = "call"
        /\ entry \in {"sample_conditions", "sample_remaining_columns"}
        /\ \/ args.output_file_path = "user" /\ files.user.exists
           \/ UnknownColumn) =>
          /\ pc' = "raised"
          /\ err'.type \in {"AssertionError", "ValueError"}
          /\ generator_calls' = 0
          /\ batch' = NoBatch /\ inb' = NoInBatches]_vars

\* sample_conditions has raised ValueError for a column that is not a
\* field, named by its second Condition, before any call of the generator.
C16_Witness ==
    /\ entry = "sample_conditions" /\ pc = "raised"
    /\ err.type = "ValueError"
    /\ Len(args.conditions) >= 2
    /\ args.conditions[1].column_values[1][1] \in Fields
    /\ args.conditions[2].column_values[1][1] \notin Fields
    /\ generator_calls = 0

\* C17: when a conditioned call raises ConstraintsNotMetError, the
\* generator has not been called for any group.
C17_ConstraintErrorBeforeGeneration ==
    (pc = "raised" /\ err.type = "ConstraintsNotMetError") =>
        generator_calls = 0

\* The least e with 2^e >= n.
RECURSIVE CeilLog2(_)
CeilLog2(n) == IF n <= 1 THEN 0 ELSE 1 + CeilLog2((n + 1) \div 2)

\* C18: with a generator of which half of the candidates of every round
\* pass, every request of the loop is even (half of it is a whole number),
\* and sample with an even num_rows returns exactly num_rows rows after at
\* most 1 + ceil(log2(num_rows)) rounds, within max_tries.
C18_HalfRateReachesTarget ==
    /\ pc = "loop" => batch.num_rows_to_sample % 2 = 0
    /\ pc = "returned" =>
           /\ Len(result) = args.num_rows
           /\ batch.counter <= 1 + CeilLog2(args.num_rows)
           /\ batch.counter <= args.max_tries_per_batch

\* sample(100, max_tries_per_batch=100) has returned 100 rows after two
\* rounds of 50 rows each.
C18_Witness ==
    /\ pc = "returned"
    /\ args.num_rows = 100 /\ args.max_tries_per_batch = 100
    /\ Len(result) = 100
    /\ batch.counter = 2
    /\ batch.prev_num_valid = 50

\* The loop has ended with the target reached.
Done == batch.num_valid >= batch.batch_size

\* The loop has ended with the retry budget used and the target not reached.
Exhausted ==
    /\ batch.counter >= args.max_tries_per_batch
    /\ batch.num_valid < batch.batch_size

\* C19: every run of the loop of _sample_batch ends; the loop takes
\* another round exactly when it is neither DONE nor EXHAUSTED, which
\* exclude each other; when EXHAUSTED the value returned is the rows
\* accepted so far, and the call goes on without raising.
C19_LoopEndsDoneOrExhausted ==
    /\ [](pc = "loop" =>
            /\ ENABLED Round <=> ~(Done \/ Exhausted)
            /\ ~(Done /\ Exhausted)
            /\ Exhausted =>
                   /\ BatchResult(batch) = batch.sampled
                   /\ ENABLED (BatchNext \/ SampleReturn))
    /\ [][(pc = "loop" /\ pc' = "raised") => err'.type = "SamplingError"]_vars
    /\ (pc = "loop") ~> (pc # "loop" \/ Done \/ Exhausted)

\* A run of the loop has ended EXHAUSTED after two rounds with some rows
\* accepted, and the call has returned them.
C19_Witness ==
    /\ entry = "sample" /\ pc = "returned"
    /\ Exhausted
    /\ batch.counter >= 2
    /\ batch.num_valid > 0
    /\ Len(result) > 0

\* C20: counter is at most max_tries; a call of the generator is made only
\* while counter < max_tries and adds exactly 1 to counter; counter changes
\* only by such a call or by the start of a run of the loop; with
\* max_tries = 0 the generator is never called and the loop returns the
\* empty frame.
C20_TriesWithinBudget ==
    /\ [](batch.counter <= Max(args.max_tries_per_batch, 0))
    /\ [](args.max_tries_per_batch = 0 =>
            generator_calls = 0 /\ BatchResult(batch) = <<>>)
    /\ [][generator_calls' # generator_calls =>
            /\ batch.counter < args.max_tries_per_batch
            /\ batch'.counter = batch.counter + 1
            /\ generator_calls' = generator_calls + 1]_vars
    /\ [][batch'.counter # batch.counter =>
            \/ generator_calls' = generator_calls + 1
            \/ batch'.counter = 0]_vars

\* The second run of the loop of a call has used all of its rounds without
\* reaching its target.
C20_Witness ==
    /\ pc = "loop"
    /\ batch.counter = args.max_tries_per_batch
    /\ batch.counter >= 2
    /\ batch.num_valid < batch.batch_size
    /\ generator_calls > batch.counter

\* The round that has just run was the call of _sample_rows of this step.
RoundStep == generator_calls' = generator_calls + 1

\* The rows the round of this step has added.
NewValid == batch'.num_valid - batch.num_valid

\* C21: after every round that does not end the loop the next request is
\* min(10 * target, ceil(remaining * max(requestedSize, 1) /
\* max(newValid, 1))) with remaining = target - accepted, and 1 if that is
\* smaller.
C21_NextRequestIsCeiling ==
    [][(RoundStep /\ LoopContinues(batch', args.max_tries_per_batch)) =>
          batch'.num_rows_to_sample =
              Max(1, Min(BatchCapFactor * batch.batch_size,
                         CeilDiv((batch.batch_size - batch'.num_valid)
                                     * Max(batch.num_rows_to_sample, 1),
                                 Max(NewValid, 1))))]_vars

\* C22: every request the loop issues to the generator, and the request it
\* is about to issue, asks for n rows with 1 <= n <= 10 * batch_size.
C22_RequestsWithinCap ==
    /\ (pc = "loop" /\ LoopContinues(batch, args.max_tries_per_batch)) =>
           /\ batch.num_rows_to_sample >= 1
           /\ batch.num_rows_to_sample <= BatchCapFactor * batch.batch_size
    /\ \A i \in 1..Len(sample_args) :
           /\ sample_args[i].num_rows >= 1
           /\ sample_args[i].num_rows <= BatchCapFactor * batch.batch_size

\* The fourth round of a run for 3 rows, after three rounds without a
\* valid row, has asked for 30 rows: the cap, where the rate asks for 81.
C22_Witness ==
    /\ batch.batch_size = 3 /\ batch.counter = 4
    /\ batch.num_valid = 0
    /\ Len(sample_args) = 1
    /\ sample_args[1].num_rows = BatchCapFactor * batch.batch_size

\* C23: when the loop goes on after a round without a new valid row, the
\* next request is not smaller than the one of the round; when it goes on
\* after a round of which every candidate requested was valid, the next
\* request is the number of rows that remain.
C23_AdaptiveDirection ==
    [][(RoundStep /\ LoopContinues(batch', args.max_tries_per_batch)) =>
          /\ NewValid = 0 =>
                 batch'.num_rows_to_sample >= batch.num_rows_to_sample
          /\ NewValid = batch.num_rows_to_sample =>
                 batch'.num_rows_to_sample = batch'.remaining]_vars

\* The rows the round of this step has newly accepted: the positions
\* previousAccepted .. min(accepted, target) - 1 of the rows held.
NewlyAccepted ==
    SubSeq(batch'.sampled, batch.num_valid + 1,
           Min(batch'.num_valid, batch.batch_size))

\* The lines of the output file of the call.
OutputLines == files[output_file_path].lines

\* A round appends the rows newly accepted, after the header when they are
\* the first lines of the file, and nothing when there are none.
AppendsIncrement ==
    (RoundStep /\ output_file_path # "") =>
        files'[output_file_path].lines =
            IF NewlyAccepted = <<>> THEN OutputLines
            ELSE IF OutputLines = <<>> THEN <<Header>> \o NewlyAccepted
            ELSE OutputLines \o NewlyAccepted

\* No step of a call that goes on rewrites or truncates a line of the file.
KeepsLines ==
    (pc = "loop" /\ pc' # "returned" /\ output_file_path # "") =>
        /\ Len(files'[output_file_path].lines) >= Len(OutputLines)
        /\ SubSeq(files'[output_file_path].lines, 1, Len(OutputLines))
               = OutputLines

\* The file has one header line, the first one.
OneHeader(lines) ==
    /\ Len(lines) >= 1 /\ lines[1] = Header
    /\ \A i \in 2..Len(lines) : lines[i] # Header

\* C24 as stated: in a call that writes to an output file, every round
\* appends the rows newly accepted and only them, no line written is
\* rewritten or truncated, and after every round the file has exactly one
\* header line, its first line.
C24_AppendOnlyOneHeader ==
    /\ [][AppendsIncrement]_vars
    /\ [][KeepsLines]_vars
    /\ []((pc = "loop" /\ output_file_path # "" /\ batch.counter >= 1) =>
            OneHeader(OutputLines))

\* C24 amended: the same, the header only once a row has been accepted:
\* until then the file is empty, and from then on it has exactly one header
\* line, its first line.
C24_AppendOnlyHeaderWithFirstRows ==
    /\ [][AppendsIncrement]_vars
    /\ [][KeepsLines]_vars
    /\ []((pc \in {"loop", "raised"} /\ output_file_path # "") =>
            IF accepted_log = <<>> THEN OutputLines = <<>>
            ELSE OneHeader(OutputLines))

\* The second partition of sample_conditions has appended rows to the
\* caller's file after a round without rows; the file holds the header and
\* the rows of both partitions.
C24_Witness ==
    /\ entry = "sample_conditions" /\ pc = "loop"
    /\ output_file_path = "user"
    /\ cond.gi = 2
    /\ batch.counter = 2 /\ batch.prev_num_valid = 0 /\ batch.num_valid >= 1
    /\ OneHeader(files.user.lines)
    /\ Len(files.user.lines) >= 3

\* The generator rejects the conditioned request of the rounds of the call.
RejectsConditions ==
    /\ entry # "sample" /\ has_dtypes
    /\ RoundTransformedConditions # "None"
    /\ ~supports_conditions

\* C25: a round in which the generator rejects the conditioned request
\* calls it a second time, once, without conditions and for the same
\* number of rows; every row it keeps matches the raw condition; and
\* counter increases by 1.
C25_FallbackIsOneRound ==
    [][(RoundStep /\ RejectsConditions) =>
          /\ sample_args' =
                 <<[num_rows |-> batch.num_rows_to_sample,
                    conditions |-> "transformed"],
                   [num_rows |-> batch.num_rows_to_sample,
                    conditions |-> "None"]>>
          /\ \A i \in 1..Len(batch'.sampled) : batch'.sampled[i] \notin stray'
          /\ batch'.counter = batch.counter + 1
          /\ generator_calls' = generator_calls + 1]_vars

\* The second round of a partition has fallen back and has kept a row.
C25_Witness ==
    /\ entry = "sample_conditions" /\ pc = "loop"
    /\ ~supports_conditions /\ n_transformed_columns = 1
    /\ batch.counter = 2
    /\ batch.num_valid > batch.prev_num_valid
    /\ Len(sample_args) = 2
    /\ sample_args[2].conditions = "None"
    /\ sample_args[2].num_rows = sample_args[1].num_rows
    /\ stray = {}

\* C26: the frame passed to _conditionally_sample_rows for a group carries,
\* as COND_IDX, the tickets of the rows of the group, in their order: each
\* of them a number, none twice.
C26_PartitionCarriesItsTickets ==
    (entry # "sample" /\ pc = "loop") =>
        LET g == Groupby(cond.frames[cond.fi])[cond.gi]
            tickets == PartitionCondIdx(g.index, n_transformed_columns)
        IN  /\ tickets = g.index
            /\ \A k \in 1..Len(tickets) : tickets[k] # NaN
            /\ \A k, l \in 1..Len(tickets) : tickets[k] = tickets[l] => k = l

\* The sum of the targets of the partitions of the first n groups of a
\* frame, and of the partitions of a list of frames.
RECURSIVE GroupTargets(_, _)
GroupTargets(frame, n) ==
    IF n = 0 THEN 0
    ELSE GroupTargets(frame, n - 1) + Len(Groupby(frame)[n].index)

RECURSIVE FrameTargets(_)
FrameTargets(frames) ==
    IF frames = <<>> THEN 0
    ELSE FrameTargets(Front(frames)) +
         GroupTargets(frames[Len(frames)],
                      Len(Groupby(frames[Len(frames)])))

StaleLines ==
    {l \in DOMAIN files.tmp.lines :
        \E m \in DOMAIN files_at_call.tmp.lines :
            /\ files_at_call.tmp.lines[m] # Header
            /\ files.tmp.lines[l] = files_at_call.tmp.lines[m]}

\* The calls sample rejects for their arguments, and the calls of sample
\* that end before _validate_file_path.
RejectedArguments ==
    entry = "sample" /\ (args.conditions_given \/ args.num_rows = None)

EndsBeforeValidation ==
    RejectedArguments \/ (entry = "sample" /\ args.num_rows = 0)

\* C28 as stated: once a call without an output path has taken its first
\* step, the temporary file holds no row of the file a prior run left
\* there, whatever the number of rows the call was given.
C28_StaleFileDeleted ==
    (args.output_file_path = "" /\ pc # "call" /\ ~RejectedArguments) =>
        /\ StaleLines = {}
        /\ files.tmp # files_at_call.tmp \/ ~files_at_call.tmp.exists

\* C28 amended: the same for the calls that reach _validate_file_path,
\* whose first step leaves an empty temporary file and runs no round.
C28_StaleFileDeletedByValidation ==
    /\ [](((args.output_file_path = "" /\ pc # "call"
            /\ ~EndsBeforeValidation) =>
              /\ StaleLines = {}
              /\ files.tmp # files_at_call.tmp \/ ~files_at_call.tmp.exists))
    /\ [][((args.output_file_path = "" /\ pc = "call"
            /\ ~EndsBeforeValidation) =>
              /\ files'.tmp = EmptyFile
              /\ generator_calls' = 0)]_vars

\* A call without an output path that found the file of a prior run has
\* written rows to the temporary file.
C28_Witness ==
    /\ args.output_file_path = "" /\ pc = "loop"
    /\ files_at_call.tmp = StaleFile
    /\ Len(DataRows(files.tmp)) > 0
    /\ Head(files.tmp.lines) = Header

\* The transform of the conditions of the conditioned call yields no column.
ZeroFeatures == entry # "sample" /\ has_dtypes /\ n_transformed_columns = 0

\* C29: when the transform of the conditions yields no column, the
\* partition that runs is the one of the whole raw group, with its own
\* tickets; every round calls the generator once, without conditions, for
\* the rows of the request; every row a round keeps matches the raw
\* condition; and every row returned has the values of a condition that
\* was requested.
C29_ZeroFeaturesUnconditioned ==
    /\ []((ZeroFeatures /\ pc = "loop") =>
            LET g == Groupby(cond.frames[cond.fi])[cond.gi]
            IN  /\ inb.num_rows = Len(g.index)
                /\ PartitionCondIdx(g.index, n_transformed_columns) = g.index
                /\ \A i \in 1..Len(sample_args) :
                       sample_args[i].conditions = "None"
                /\ \A i \in 1..Len(batch.sampled) :
                       batch.sampled[i] \notin stray)
    /\ []((ZeroFeatures /\ pc = "returned") =>
            \A i \in 1..Len(result) :
                /\ result[i].vals # StrayVals(result[i].vals)
                /\ \E fi \in 1..Len(cond.frames) :
                       /\ cond.frames[fi].columns = result[i].columns
                       /\ \E k \in 1..Len(cond.frames[fi].rows) :
                              cond.frames[fi].rows[k] = result[i].vals)
    /\ [][(RoundStep /\ ZeroFeatures) =>
            sample_args' = <<[num_rows |-> batch.num_rows_to_sample,
                              conditions |-> "None"]>>]_vars

\* A conditioned call whose conditions transform to no column has returned
\* the rows of two raw groups, the last round with one call of the
\* generator, without conditions.
C29_Witness ==
    /\ ZeroFeatures /\ pc = "returned"
    /\ Len(Groupby(cond.frames[1])) = 2
    /\ Len(result) >= 2
    /\ Len(sample_args) = 1
    /\ sample_args[1].conditions = "None"

\* The row has the requested value on every condition column.
ExactMatch(row, conditions) ==
    \A i \in 1..Len(conditions) : row[conditions[i][1]] = conditions[i][2]

\* C31: _filter_conditions keeps every candidate row whose value on each
\* condition column is exactly the requested one, whatever the sign of the
\* value and for every rtol >= 0.
C31_ExactMatchKept ==
    matcher.runs = 1 =>
        \A i \in 1..Len(matcher.before) :
            ExactMatch(matcher.before[i], matcher.conditions) =>
                \E j \in 1..Len(matcher.sampled) :
                    matcher.sampled[j] = matcher.before[i]

\* C32: when a call with a caller-supplied output path returns, the file
\* holds as many data rows as the call returns, and the progress reported,
\* which is the number of rows accepted, is at most the number of rows
\* requested.
C32_FileRowsAreReturnedRows ==
    (pc = "returned" /\ output_file_path = "user") =>
        /\ Len(DataRows(files.user)) = Len(result)
        /\ Len(accepted_log) <=
               IF entry = "sample" THEN args.num_rows ELSE cond.expected

\* C33: after sample_conditions or sample_remaining_columns has failed for
\* a condition on an unknown column, no file exists that did not exist
\* when the call was made, and the same call is not rejected for its
\* output path.
C33_ConfigurationErrorLeavesNoFile ==
    (entry \in {"sample_conditions", "sample_remaining_columns"}
     /\ pc = "raised" /\ err.type = "ValueError") =>
        /\ files.tmp.exists => files_at_call.tmp.exists
        /\ files.user.exists => files_at_call.user.exists
        /\ ValidateFilePath(args.output_file_path, files).ok

\* The number of rows requested with the mapping of column_values,
\* whatever the order in which the Conditions list their columns.
RECURSIVE RowsRequestedForMapping(_, _)
RowsRequestedForMapping(conditions, column_values) ==
    IF conditions = <<>> THEN 0
    ELSE LET c == conditions[Len(conditions)]
         IN  RowsRequestedForMapping(Front(conditions), column_values) +
             (IF Mapping(c.column_values) = Mapping(column_values)
              THEN c.num_rows ELSE 0)

\* C34: once sample_conditions has partitioned its Conditions, any two
\* Conditions that map the same columns to the same values, in whatever
\* order they list them, are in one raw group: a group of one of the
\* frames has their mapping as its key and holds, under pairwise distinct
\* labels of that frame, all the rows requested with this mapping.
C34_ColumnOrderIndependent ==
    (entry = "sample_conditions" /\ cond.frames # <<>>) =>
        \A i, j \in 1..Len(args.conditions) :
            (i < j /\ Mapping(args.conditions[i].column_values)
                        = Mapping(args.conditions[j].column_values)) =>
                \E fi \in 1..Len(cond.frames) :
                    \E gi \in 1..Len(Groupby(cond.frames[fi])) :
                        LET frame == cond.frames[fi]
                            g == Groupby(frame)[gi]
                        IN  /\ {<<frame.columns[k], g.key[k]>> :
                                   k \in 1..Len(g.key)}
                                 = Mapping(args.conditions[i].column_values)
                            /\ Len(g.index) =
                                 RowsRequestedForMapping(args.conditions,
                                     args.conditions[i].column_values)
                            /\ \A k, l \in 1..Len(g.index) :
                                   g.index[k] = g.index[l] => k = l

\* s is a prefix of t.
IsPrefix(s, t) == Len(s) <= Len(t) /\ SubSeq(t, 1, Len(s)) = s

C36_SameCauseAtBothEntryPoints ==
    check_num_rows_args.called =>
        /\ check_num_rows_args.is_reject_sampling =
               IsRejectSampling(IF entry = "sample_conditions"
                                THEN "sample_remaining_columns"
                                ELSE "sample_conditions", model)
        /\ check_num_rows_args.is_reject_sampling =
               (model # "GaussianMultivariate")

\* C37: a call of sample with conditions raises TypeError, without them
\* and with num_rows None it raises ValueError, and with num_rows = 0 it
\* returns an empty table; in the three cases the generator has not been
\* called, the random state has not been set, handle_sampling_error has
\* not been called and the file system is the one the call found.
C37_SampleRejectsBeforeSideEffects ==
    (entry = "sample" /\ pc # "call" /\ EndsBeforeValidation) =>
        /\ IF args.conditions_given
           THEN pc = "raised" /\ err.type = "TypeError"
           ELSE IF args.num_rows = None
           THEN pc = "raised" /\ err.type = "ValueError"
           ELSE pc = "returned" /\ result = <<>>
        /\ generator_calls = 0
        /\ set_random_state_calls = 0
        /\ ~handled.called
        /\ files = files_at_call

\* sample(num_rows=0) has returned where a file of a prior run was at the
\* temporary location and one at the caller's path.
C37_Witness ==
    /\ entry = "sample" /\ pc = "returned"
    /\ args.num_rows = 0 /\ ~args.conditions_given
    /\ args.output_file_path = "user"
    /\ files_at_call.user = StaleFile
    /\ files_at_call.tmp = StaleFile
    /\ files = files_at_call
    /\ set_random_state_calls = 0

====
